---- MODULE Spec2Model ----
(***************************************************************************)
(* GCP Cloud Architecture Designer (src/app.py).                           *)
(*                                                                         *)
(* A Streamlit script: fifteen widgets set module-level globals, the       *)
(* script computes arch = architecture_logic(), dot = build_dot(arch),     *)
(* agent_feedback = agentic_verifier(arch) and the export document         *)
(* bom_json, and every widget interaction re-runs the script from the top. *)
(*                                                                         *)
(* Python values are kept with their type: a str is PyStr(s), a list of    *)
(* str is PyList(<<...>>).  A dict is a function from its keys.  Text that *)
(* the TLA+ lexer does not accept is written in ASCII: the warning sign    *)
(* prefix of an advisory is "[!] ", the check mark prefix of the           *)
(* confirmation is "[ok] ", and the arrow in the CI/CD entry is "->".      *)
(***************************************************************************)
EXTENDS Integers, Sequences, FiniteSets, TLC

VARIABLES
    users, rps, latency_ms, data_gb_day, rag_corpus_gb,
    freshness_min, streaming_pct, availability, rpo_min, rto_min,
    security, compliance, budget, model_size, embed_refresh_hours,
    arch, dot, agent_feedback, bom_json, now

inputVars == <<users, rps, latency_ms, data_gb_day, rag_corpus_gb,
               freshness_min, streaming_pct, availability, rpo_min, rto_min,
               security, compliance, budget, model_size, embed_refresh_hours>>

vars == <<users, rps, latency_ms, data_gb_day, rag_corpus_gb,
          freshness_min, streaming_pct, availability, rpo_min, rto_min,
          security, compliance, budget, model_size, embed_refresh_hours,
          arch, dot, agent_feedback, bom_json, now>>

(***************************************************************************)
(* Bound: the number of re-runs of the script in one session (the clock    *)
(* read by datetime.utcnow() advances by one tick per run).                *)
(***************************************************************************)
MaxTime == 3

(***************************************************************************)
(* Python values.                                                          *)
(***************************************************************************)
PyStr(s) == [type |-> "str", val |-> s]

PyList(q) == [type |-> "list", val |-> q]

\* x in v: an element equal to x when v is a list, a substring equal to x
\* when v is a str.
PyIn(x, v) ==
    IF v.type = "list"
    THEN \E i \in 1..Len(v.val) : v.val[i] = x
    ELSE \E i \in 1..(Len(v.val) - Len(x) + 1) :
             SubSeq(v.val, i, i + Len(x) - 1) = x

(***************************************************************************)
(* The widgets: st.slider(label, min, max, value, step) and                *)
(* st.select_slider(label, options, value).                                *)
(***************************************************************************)
usersSlider == [min |-> 1, max |-> 20000, value |-> 500, step |-> 1]

rpsSlider == [min |-> 1, max |-> 5000, value |-> 120, step |-> 1]

latency_msSlider == [min |-> 50, max |-> 2000, value |-> 300, step |-> 50]

data_gb_daySlider == [min |-> 1, max |-> 5000, value |-> 80, step |-> 1]

rag_corpus_gbSlider == [min |-> 1, max |-> 10000, value |-> 200, step |-> 1]

freshness_minSlider == [min |-> 1, max |-> 1440, value |-> 30, step |-> 1]

streaming_pctSlider == [min |-> 0, max |-> 100, value |-> 60, step |-> 1]

availabilitySlider == [options |-> <<"99.0%", "99.9%", "99.99%">>, value |-> "99.9%"]

rpo_minSlider == [min |-> 0, max |-> 1440, value |-> 15, step |-> 1]

rto_minSlider == [min |-> 0, max |-> 1440, value |-> 30, step |-> 1]

securitySlider == [options |-> <<"Low", "Medium", "High">>, value |-> "High"]

complianceSlider == [options |-> <<"None", "PII", "PHI/PCI">>, value |-> "PII"]

budgetSlider == [options |-> <<"Low", "Medium", "High">>, value |-> "Medium"]

model_sizeSlider == [options |-> <<"S", "M", "L">>, value |-> "M"]

embed_refresh_hoursSlider == [min |-> 1, max |-> 168, value |-> 24, step |-> 1]

\* The positions a slider can be put in.
InSlider(s, v) == v \in s.min..s.max /\ (v - s.min) % s.step = 0

Options(s) == {s.options[i] : i \in 1..Len(s.options)}

\* The positions of a slider the model moves it to: its default and those
\* of the given marks that are positions of the slider.
Sample(s, marks) == {v \in marks \cup {s.value} : InSlider(s, v)}

(***************************************************************************)
(* The module-level globals the two functions read, as one record.         *)
(***************************************************************************)
Globals ==
    [users |-> users, rps |-> rps, latency_ms |-> latency_ms,
     data_gb_day |-> data_gb_day, rag_corpus_gb |-> rag_corpus_gb,
     freshness_min |-> freshness_min, streaming_pct |-> streaming_pct,
     availability |-> availability, rpo_min |-> rpo_min, rto_min |-> rto_min,
     security |-> security, compliance |-> compliance,
     budget |-> budget, model_size |-> model_size,
     embed_refresh_hours |-> embed_refresh_hours]

(***************************************************************************)
(* architecture_logic(): g is the record of globals it is run with.  Each  *)
(* local of the function is a definition of its own.                       *)
(***************************************************************************)
\* Variant: the latency threshold compared with >=.
api_layer_ge(g) ==
    IF g.latency_ms >= 150
    THEN PyList(<<"Cloud Run (FastAPI)">>)
    ELSE PyList(<<"Vertex AI Endpoints">>)

api_layer(g) ==
    IF g.latency_ms > 150
    THEN PyList(<<"Cloud Run (FastAPI)">>)
    ELSE PyList(<<"Vertex AI Endpoints">>)

\* Variant: the streaming branch taken only for a percentage up to 100.
ingestion_ranged(g) ==
    IF g.streaming_pct >= 50 /\ g.streaming_pct <= 100
    THEN PyList(<<"Cloud Storage", "Pub/Sub">>)
    ELSE PyList(<<"Cloud Storage", "Batch Dataflow">>)

ingestion(g) ==
    IF g.streaming_pct >= 50
    THEN PyList(<<"Cloud Storage", "Pub/Sub">>)
    ELSE PyList(<<"Cloud Storage", "Batch Dataflow">>)

\* Variant: the brackets left out, a bare str.
processing_str(g) ==
    PyStr(IF g.freshness_min < 15
          THEN "Dataflow (Streaming)"
          ELSE "BigQuery + Composer")

\* Variant: the freshness threshold compared with <=.
processing_le(g) ==
    PyList(<<IF g.freshness_min <= 15
             THEN "Dataflow (Streaming)"
             ELSE "BigQuery + Composer">>)

processing(g) ==
    PyList(<<IF g.freshness_min < 15
             THEN "Dataflow (Streaming)"
             ELSE "BigQuery + Composer">>)

storage(g) == PyList(<<"BigQuery", "Cloud SQL", "Firestore">>)

\* Variant: the two branches exchanged.
vector_db_swapped(g) ==
    IF g.rag_corpus_gb > 50
    THEN PyStr("pgvector on Cloud SQL")
    ELSE PyStr("Vertex AI Matching Engine")

vector_db(g) ==
    IF g.rag_corpus_gb > 50
    THEN PyStr("Vertex AI Matching Engine")
    ELSE PyStr("pgvector on Cloud SQL")

embedding_pipeline(g) == PyStr("Cloud Run Embedding Workers")

\* Variant: the managed endpoint chosen by size and latency together.
llm_serving_latency(g) ==
    IF g.model_size = "L" /\ g.latency_ms <= 150
    THEN PyStr("Vertex AI Endpoints")
    ELSE PyStr("Cloud Run (Light LLM)")

llm_serving(g) ==
    IF g.model_size = "L"
    THEN PyStr("Vertex AI Endpoints")
    ELSE PyStr("Cloud Run (Light LLM)")

agentic_ai(g) ==
    PyList(<<"Workflows orchestrator", "Serverless agents", "Pub/Sub triggers">>)

mlops(g) ==
    PyList(<<"Vertex AI Experiments", "Model Registry",
             "Cloud Monitoring + Logging">>)

cicd(g) ==
    PyList(<<"GitHub Actions -> Cloud Build -> Deploy", "Terraform Infra as Code">>)

\* Variant: the standby chosen by the recovery point objective.
dr_rpo(g) ==
    IF g.rpo_min = 0
    THEN PyList(<<"Multi-region backups", "Hot standby">>)
    ELSE PyList(<<"Multi-region backups", "Cold/Warm standby">>)

dr(g) == PyList(<<"Multi-region backups", "Cold/Warm standby">>)

\* f"Vector DB: {vector_db}" formats the str held by vector_db.
rag_stack(g) ==
    PyList(<<"Retriever (FAISS or Matching Engine)",
             "Vector DB: " \o vector_db(g).val,
             "Context Builder", "RAG Policy">>)

architecture_logic(g) ==
    ("API Layer" :> api_layer(g))
    @@ ("Ingestion" :> ingestion(g))
    @@ ("Processing" :> processing(g))
    @@ ("Storage" :> storage(g))
    @@ ("Vector DB" :> vector_db(g))
    @@ ("Embedding Pipeline" :> embedding_pipeline(g))
    @@ ("RAG Stack" :> rag_stack(g))
    @@ ("LLM Serving" :> llm_serving(g))
    @@ ("Agentic AI" :> agentic_ai(g))
    @@ ("MLOps" :> mlops(g))
    @@ ("CI/CD" :> cicd(g))
    @@ ("DR/Resilience" :> dr(g))

\* The order in which the dict literal of architecture_logic lists its keys
\* (a dict iterates in insertion order).
ArchKeys ==
    <<"API Layer", "Ingestion", "Processing", "Storage", "Vector DB",
      "Embedding Pipeline", "RAG Stack", "LLM Serving", "Agentic AI",
      "MLOps", "CI/CD", "DR/Resilience">>

(***************************************************************************)
(* agentic_verifier(arch_dict): g is the record of globals it is run with. *)
(***************************************************************************)
Advisory1 == "[!] Suggest Vertex AI Matching Engine for large RAG corpus instead of Cloud SQL."

Advisory2 == "[!] Large models on Cloud Run may hit resource limits; consider Vertex AI endpoints."

Advisory3 == "[!] High streaming %; consider adding Dataflow streaming transforms."

Confirmation == "[ok] Architecture looks reasonable given free LLM verification constraints."

\* The conditions of the three if statements.
\* Variant: the corpus threshold compared with >=.
Rule1_ge(arch_dict, g) ==
    PyIn("Cloud SQL", arch_dict["Storage"]) /\ g.rag_corpus_gb >= 500

Rule1(arch_dict, g) ==
    PyIn("Cloud SQL", arch_dict["Storage"]) /\ g.rag_corpus_gb > 500

Rule2(arch_dict, g) ==
    g.model_size = "L" /\ arch_dict["LLM Serving"] = PyStr("Cloud Run (Light LLM)")

Rule3(arch_dict, g) ==
    g.streaming_pct > 70 /\ ~PyIn("Dataflow (Streaming)", arch_dict["Processing"])

\* Variant: the three if statements chained as if / elif / elif.
agentic_verifier_elif(arch_dict, g) ==
    IF Rule1(arch_dict, g) THEN <<Advisory1>>
    ELSE IF Rule2(arch_dict, g) THEN <<Advisory2>>
    ELSE IF Rule3(arch_dict, g) THEN <<Advisory3>>
    ELSE <<Confirmation>>

agentic_verifier(arch_dict, g) ==
    LET f0 == <<>>
        f1 == IF Rule1(arch_dict, g) THEN Append(f0, Advisory1) ELSE f0
        f2 == IF Rule2(arch_dict, g) THEN Append(f1, Advisory2) ELSE f1
        f3 == IF Rule3(arch_dict, g) THEN Append(f2, Advisory3) ELSE f2
    IN  IF f3 = <<>> THEN Append(f3, Confirmation) ELSE f3

(***************************************************************************)
(* build_dot(arch_dict): the DOT text.                                     *)
(***************************************************************************)
\* s.replace(old, new) for a one-character old.
RECURSIVE Replace(_, _, _)
Replace(s, old, new) ==
    IF Len(s) = 0 THEN ""
    ELSE (IF SubSeq(s, 1, 1) = old THEN new ELSE SubSeq(s, 1, 1))
         \o Replace(SubSeq(s, 2, Len(s)), old, new)

\* The inner loop: one node line per element, numbered from 0.
RECURSIVE DotNodes(_, _, _)
DotNodes(cluster, nodes, i) ==
    IF i > Len(nodes) THEN ""
    ELSE "\"" \o cluster \o "_" \o ToString(i - 1) \o "\" [label=\""
         \o nodes[i] \o "\"];\n" \o DotNodes(cluster, nodes, i + 1)

\* The outer loop over arch_dict.items(), from the k-th key on.
RECURSIVE DotClusters(_, _)
DotClusters(arch_dict, k) ==
    IF k > Len(ArchKeys) THEN ""
    ELSE LET cluster == ArchKeys[k]
             nodes == arch_dict[cluster]
         IN  "subgraph cluster_" \o Replace(cluster, " ", "_")
             \o " { label=\"" \o cluster
             \o "\"; style=rounded; color=\"#999999\";\n"
             \o DotNodes(cluster,
                         IF nodes.type = "list" THEN nodes.val ELSE <<nodes.val>>,
                         1)
             \o "}\n"
             \o DotClusters(arch_dict, k + 1)

edges ==
    <<<<"API Layer", "Agentic AI">>, <<"Agentic AI", "RAG Stack">>,
      <<"RAG Stack", "LLM Serving">>, <<"Ingestion", "Processing">>,
      <<"Processing", "Storage">>, <<"Storage", "RAG Stack">>>>

RECURSIVE DotEdges(_)
DotEdges(i) ==
    IF i > Len(edges) THEN ""
    ELSE "\"cluster_" \o Replace(edges[i][1], " ", "_") \o "\" -> \"cluster_"
         \o Replace(edges[i][2], " ", "_") \o "\" [style=dashed];\n"
         \o DotEdges(i + 1)

build_dot(arch_dict) ==
    "digraph G { rankdir=LR; node [shape=box, style=rounded, fillcolor=\"#EEF5FF\"];\n"
    \o DotClusters(arch_dict, 1)
    \o DotEdges(1)
    \o "}"

(***************************************************************************)
(* The export document: the object json.dumps serialises; generated_at is  *)
(* the clock reading t.                                                    *)
(***************************************************************************)
BomDocument(arch_dict, feedback, g, t) ==
    [architecture |-> arch_dict,
     agent_feedback |-> feedback,
     inputs |-> g,
     generated_at |-> t]

(***************************************************************************)
(* One run of the script, top to bottom, with the widget values of the     *)
(* next state: the clock has advanced by the time bom_json is built.       *)
(***************************************************************************)
\* Variant: the report kept from the previous run while the selection is
\* the same (a result cached on the function's argument).
RunScript_cached ==
    /\ now' = now + 1
    /\ arch' = architecture_logic(Globals')
    /\ dot' = build_dot(arch')
    /\ agent_feedback' = IF arch' = arch THEN agent_feedback
                         ELSE agentic_verifier(arch', Globals')
    /\ bom_json' = BomDocument(arch', agent_feedback', Globals', now')

RunScript ==
    /\ now' = now + 1
    /\ arch' = architecture_logic(Globals')
    /\ dot' = build_dot(arch')
    /\ agent_feedback' = agentic_verifier(arch', Globals')
    /\ bom_json' = BomDocument(arch', agent_feedback', Globals', now')

\* The first run: every widget returns its default value.
Init ==
    /\ users = usersSlider.value
    /\ rps = rpsSlider.value
    /\ latency_ms = latency_msSlider.value
    /\ data_gb_day = data_gb_daySlider.value
    /\ rag_corpus_gb = rag_corpus_gbSlider.value
    /\ freshness_min = freshness_minSlider.value
    /\ streaming_pct = streaming_pctSlider.value
    /\ availability = availabilitySlider.value
    /\ rpo_min = rpo_minSlider.value
    /\ rto_min = rto_minSlider.value
    /\ security = securitySlider.value
    /\ compliance = complianceSlider.value
    /\ budget = budgetSlider.value
    /\ model_size = model_sizeSlider.value
    /\ embed_refresh_hours = embed_refresh_hoursSlider.value
    /\ now = 0
    /\ arch = architecture_logic(Globals)
    /\ dot = build_dot(arch)
    /\ agent_feedback = agentic_verifier(arch, Globals)
    /\ bom_json = BomDocument(arch, agent_feedback, Globals, now)

(***************************************************************************)
(* The slider positions the model moves each widget to (besides its        *)
(* default): the positions next to the thresholds the code compares with,  *)
(* and one other position for the widgets no comparison reads.             *)
(***************************************************************************)
usersMarks == {20000}

rpsMarks == {5000}

latency_msMarks == {150, 200}

data_gb_dayMarks == {5000}

rag_corpus_gbMarks == {50, 51, 500, 501}

freshness_minMarks == {14, 15}

streaming_pctMarks == {49, 50, 70, 71}

rpo_minMarks == {0}

rto_minMarks == {1440}

embed_refresh_hoursMarks == {168}

(***************************************************************************)
(* The user moves one widget; Streamlit re-runs the script.                *)
(***************************************************************************)
SetUsers ==
    /\ now < MaxTime
    /\ \E v \in Sample(usersSlider, usersMarks) : v # users /\ users' = v
    /\ UNCHANGED <<rps, latency_ms, data_gb_day, rag_corpus_gb,
                   freshness_min, streaming_pct, availability, rpo_min, rto_min,
                   security, compliance, budget, model_size, embed_refresh_hours>>
    /\ RunScript

SetRps ==
    /\ now < MaxTime
    /\ \E v \in Sample(rpsSlider, rpsMarks) : v # rps /\ rps' = v
    /\ UNCHANGED <<users, latency_ms, data_gb_day, rag_corpus_gb,
                   freshness_min, streaming_pct, availability, rpo_min, rto_min,
                   security, compliance, budget, model_size, embed_refresh_hours>>
    /\ RunScript

SetLatencyMs ==
    /\ now < MaxTime
    /\ \E v \in Sample(latency_msSlider, latency_msMarks) :
           v # latency_ms /\ latency_ms' = v
    /\ UNCHANGED <<users, rps, data_gb_day, rag_corpus_gb,
                   freshness_min, streaming_pct, availability, rpo_min, rto_min,
                   security, compliance, budget, model_size, embed_refresh_hours>>
    /\ RunScript

SetDataGbDay ==
    /\ now < MaxTime
    /\ \E v \in Sample(data_gb_daySlider, data_gb_dayMarks) :
           v # data_gb_day /\ data_gb_day' = v
    /\ UNCHANGED <<users, rps, latency_ms, rag_corpus_gb,
                   freshness_min, streaming_pct, availability, rpo_min, rto_min,
                   security, compliance, budget, model_size, embed_refresh_hours>>
    /\ RunScript

SetRagCorpusGb ==
    /\ now < MaxTime
    /\ \E v \in Sample(rag_corpus_gbSlider, rag_corpus_gbMarks) :
           v # rag_corpus_gb /\ rag_corpus_gb' = v
    /\ UNCHANGED <<users, rps, latency_ms, data_gb_day,
                   freshness_min, streaming_pct, availability, rpo_min, rto_min,
                   security, compliance, budget, model_size, embed_refresh_hours>>
    /\ RunScript

SetFreshnessMin ==
    /\ now < MaxTime
    /\ \E v \in Sample(freshness_minSlider, freshness_minMarks) :
           v # freshness_min /\ freshness_min' = v
    /\ UNCHANGED <<users, rps, latency_ms, data_gb_day, rag_corpus_gb,
                   streaming_pct, availability, rpo_min, rto_min,
                   security, compliance, budget, model_size, embed_refresh_hours>>
    /\ RunScript

SetStreamingPct ==
    /\ now < MaxTime
    /\ \E v \in Sample(streaming_pctSlider, streaming_pctMarks) :
           v # streaming_pct /\ streaming_pct' = v
    /\ UNCHANGED <<users, rps, latency_ms, data_gb_day, rag_corpus_gb,
                   freshness_min, availability, rpo_min, rto_min,
                   security, compliance, budget, model_size, embed_refresh_hours>>
    /\ RunScript

SetAvailability ==
    /\ now < MaxTime
    /\ \E v \in Options(availabilitySlider) :
           v # availability /\ availability' = v
    /\ UNCHANGED <<users, rps, latency_ms, data_gb_day, rag_corpus_gb,
                   freshness_min, streaming_pct, rpo_min, rto_min,
                   security, compliance, budget, model_size, embed_refresh_hours>>
    /\ RunScript

SetRpoMin ==
    /\ now < MaxTime
    /\ \E v \in Sample(rpo_minSlider, rpo_minMarks) : v # rpo_min /\ rpo_min' = v
    /\ UNCHANGED <<users, rps, latency_ms, data_gb_day, rag_corpus_gb,
                   freshness_min, streaming_pct, availability, rto_min,
                   security, compliance, budget, model_size, embed_refresh_hours>>
    /\ RunScript

SetRtoMin ==
    /\ now < MaxTime
    /\ \E v \in Sample(rto_minSlider, rto_minMarks) : v # rto_min /\ rto_min' = v
    /\ UNCHANGED <<users, rps, latency_ms, data_gb_day, rag_corpus_gb,
                   freshness_min, streaming_pct, availability, rpo_min,
                   security, compliance, budget, model_size, embed_refresh_hours>>
    /\ RunScript

SetSecurity ==
    /\ now < MaxTime
    /\ \E v \in Options(securitySlider) : v # security /\ security' = v
    /\ UNCHANGED <<users, rps, latency_ms, data_gb_day, rag_corpus_gb,
                   freshness_min, streaming_pct, availability, rpo_min, rto_min,
                   compliance, budget, model_size, embed_refresh_hours>>
    /\ RunScript

SetCompliance ==
    /\ now < MaxTime
    /\ \E v \in Options(complianceSlider) : v # compliance /\ compliance' = v
    /\ UNCHANGED <<users, rps, latency_ms, data_gb_day, rag_corpus_gb,
                   freshness_min, streaming_pct, availability, rpo_min, rto_min,
                   security, budget, model_size, embed_refresh_hours>>
    /\ RunScript

SetBudget ==
    /\ now < MaxTime
    /\ \E v \in Options(budgetSlider) : v # budget /\ budget' = v
    /\ UNCHANGED <<users, rps, latency_ms, data_gb_day, rag_corpus_gb,
                   freshness_min, streaming_pct, availability, rpo_min, rto_min,
                   security, compliance, model_size, embed_refresh_hours>>
    /\ RunScript

SetModelSize ==
    /\ now < MaxTime
    /\ \E v \in Options(model_sizeSlider) : v # model_size /\ model_size' = v
    /\ UNCHANGED <<users, rps, latency_ms, data_gb_day, rag_corpus_gb,
                   freshness_min, streaming_pct, availability, rpo_min, rto_min,
                   security, compliance, budget, embed_refresh_hours>>
    /\ RunScript

SetEmbedRefreshHours ==
    /\ now < MaxTime
    /\ \E v \in Sample(embed_refresh_hoursSlider, embed_refresh_hoursMarks) :
           v # embed_refresh_hours /\ embed_refresh_hours' = v
    /\ UNCHANGED <<users, rps, latency_ms, data_gb_day, rag_corpus_gb,
                   freshness_min, streaming_pct, availability, rpo_min, rto_min,
                   security, compliance, budget, model_size>>
    /\ RunScript

\* A click on either download button: Streamlit re-runs the script with
\* every widget unchanged.
ClickDownload ==
    /\ now < MaxTime
    /\ UNCHANGED inputVars
    /\ RunScript

Next ==
    \/ SetUsers
    \/ SetRps
    \/ SetLatencyMs
    \/ SetDataGbDay
    \/ SetRagCorpusGb
    \/ SetFreshnessMin
    \/ SetStreamingPct
    \/ SetAvailability
    \/ SetRpoMin
    \/ SetRtoMin
    \/ SetSecurity
    \/ SetCompliance
    \/ SetBudget
    \/ SetModelSize
    \/ SetEmbedRefreshHours
    \/ ClickDownload

Spec == Init /\ [][Next]_vars

(***************************************************************************)
(* The two functions under a caller that does not validate: the five       *)
(* globals the functions read take values inside and outside the ranges    *)
(* the widgets declare, next to each range end and each threshold.  The    *)
(* caller computes the selection and the report (lines 101 and 144); the   *)
(* diagram, the export document and the clock are the page's and stay.     *)
(***************************************************************************)
CoreLatencyMs == {49, 50, 150, 151, 2000, 2001}

CoreStreamingPct == {-1, 0, 49, 50, 70, 71, 100, 101}

CoreFreshnessMin == {0, 1, 14, 15, 1440, 1441}

CoreRagCorpusGb == {-1, 1, 50, 51, 500, 501, 10000, 10001}

CoreModelSize == {"S", "M", "L"}

RunCore ==
    /\ arch' = architecture_logic(Globals')
    /\ agent_feedback' = agentic_verifier(arch', Globals')
    /\ UNCHANGED <<dot, bom_json, now>>

GiveLatencyMs ==
    /\ \E v \in CoreLatencyMs : v # latency_ms /\ latency_ms' = v
    /\ UNCHANGED <<users, rps, data_gb_day, rag_corpus_gb,
                   freshness_min, streaming_pct, availability, rpo_min, rto_min,
                   security, compliance, budget, model_size, embed_refresh_hours>>
    /\ RunCore

GiveStreamingPct ==
    /\ \E v \in CoreStreamingPct : v # streaming_pct /\ streaming_pct' = v
    /\ UNCHANGED <<users, rps, latency_ms, data_gb_day, rag_corpus_gb,
                   freshness_min, availability, rpo_min, rto_min,
                   security, compliance, budget, model_size, embed_refresh_hours>>
    /\ RunCore

GiveFreshnessMin ==
    /\ \E v \in CoreFreshnessMin : v # freshness_min /\ freshness_min' = v
    /\ UNCHANGED <<users, rps, latency_ms, data_gb_day, rag_corpus_gb,
                   streaming_pct, availability, rpo_min, rto_min,
                   security, compliance, budget, model_size, embed_refresh_hours>>
    /\ RunCore

GiveRagCorpusGb ==
    /\ \E v \in CoreRagCorpusGb : v # rag_corpus_gb /\ rag_corpus_gb' = v
    /\ UNCHANGED <<users, rps, latency_ms, data_gb_day,
                   freshness_min, streaming_pct, availability, rpo_min, rto_min,
                   security, compliance, budget, model_size, embed_refresh_hours>>
    /\ RunCore

GiveModelSize ==
    /\ \E v \in CoreModelSize : v # model_size /\ model_size' = v
    /\ UNCHANGED <<users, rps, latency_ms, data_gb_day, rag_corpus_gb,
                   freshness_min, streaming_pct, availability, rpo_min, rto_min,
                   security, compliance, budget, embed_refresh_hours>>
    /\ RunCore

NextCore ==
    \/ GiveLatencyMs
    \/ GiveStreamingPct
    \/ GiveFreshnessMin
    \/ GiveRagCorpusGb
    \/ GiveModelSize

SpecCore == Init /\ [][NextCore]_vars

(***************************************************************************)
(* agentic_verifier under a caller that hands it any selection: the three  *)
(* entries the function reads take values the recommender produces and     *)
(* values it does not, and the three globals it reads take the values      *)
(* above.  The other entries of the selection stay those of the first run. *)
(***************************************************************************)
StorageChoices ==
    {<<"BigQuery", "Cloud SQL", "Firestore">>, <<"BigQuery", "Firestore">>,
     <<"Cloud SQL">>, <<"BigQuery", "pgvector on Cloud SQL">>}

LlmServingChoices ==
    {"Vertex AI Endpoints", "Cloud Run (Light LLM)", "Cloud Run (FastAPI)"}

ProcessingChoices ==
    {<<"Dataflow (Streaming)">>, <<"BigQuery + Composer">>,
     <<"BigQuery + Composer", "Dataflow (Streaming)">>,
     <<"Dataflow (Streaming) + Composer">>}

RunVerifier ==
    /\ agent_feedback' = agentic_verifier(arch', Globals')
    /\ UNCHANGED <<dot, bom_json, now>>

VerifyStorage ==
    /\ \E q \in StorageChoices :
           /\ PyList(q) # arch["Storage"]
           /\ arch' = [arch EXCEPT !["Storage"] = PyList(q)]
    /\ UNCHANGED inputVars
    /\ RunVerifier

VerifyLlmServing ==
    /\ \E v \in LlmServingChoices :
           /\ PyStr(v) # arch["LLM Serving"]
           /\ arch' = [arch EXCEPT !["LLM Serving"] = PyStr(v)]
    /\ UNCHANGED inputVars
    /\ RunVerifier

VerifyProcessing ==
    /\ \E q \in ProcessingChoices :
           /\ PyList(q) # arch["Processing"]
           /\ arch' = [arch EXCEPT !["Processing"] = PyList(q)]
    /\ UNCHANGED inputVars
    /\ RunVerifier

VerifyRagCorpusGb ==
    /\ \E v \in CoreRagCorpusGb : v # rag_corpus_gb /\ rag_corpus_gb' = v
    /\ UNCHANGED <<users, rps, latency_ms, data_gb_day,
                   freshness_min, streaming_pct, availability, rpo_min, rto_min,
                   security, compliance, budget, model_size, embed_refresh_hours>>
    /\ UNCHANGED arch
    /\ RunVerifier

VerifyModelSize ==
    /\ \E v \in CoreModelSize : v # model_size /\ model_size' = v
    /\ UNCHANGED <<users, rps, latency_ms, data_gb_day, rag_corpus_gb,
                   freshness_min, streaming_pct, availability, rpo_min, rto_min,
                   security, compliance, budget, embed_refresh_hours>>
    /\ UNCHANGED arch
    /\ RunVerifier

VerifyStreamingPct ==
    /\ \E v \in CoreStreamingPct : v # streaming_pct /\ streaming_pct' = v
    /\ UNCHANGED <<users, rps, latency_ms, data_gb_day, rag_corpus_gb,
                   freshness_min, availability, rpo_min, rto_min,
                   security, compliance, budget, model_size, embed_refresh_hours>>
    /\ UNCHANGED arch
    /\ RunVerifier

NextVerify ==
    \/ VerifyStorage
    \/ VerifyLlmServing
    \/ VerifyProcessing
    \/ VerifyRagCorpusGb
    \/ VerifyModelSize
    \/ VerifyStreamingPct

SpecVerify == Init /\ [][NextVerify]_vars

(***************************************************************************)
(* Properties.                                                             *)
(***************************************************************************)
\* The advisory or confirmation m is in the current report.
InReport(m) == \E i \in 1..Len(agent_feedback) : agent_feedback[i] = m

\* The str x is an element of the list held under key k of the selection.
Holds(k, x) == \E i \in 1..Len(arch[k].val) : arch[k].val[i] = x

\* A declared range end nearest to v, or v itself when it is in the range.
Clamp(s, v) == IF v < s.min THEN s.min ELSE IF v > s.max THEN s.max ELSE v

\* C1: the selection has exactly the 12 category keys, Vector DB,
\* Embedding Pipeline and LLM Serving hold a single string and the other
\* nine keys hold a sequence of strings, for every input record.
C1_KeysAndShapes ==
    /\ DOMAIN arch = {"API Layer", "Ingestion", "Processing", "Storage",
                      "Vector DB", "Embedding Pipeline", "RAG Stack",
                      "LLM Serving", "Agentic AI", "MLOps", "CI/CD",
                      "DR/Resilience"}
    /\ Cardinality(DOMAIN arch) = 12
    /\ \A k \in {"Vector DB", "Embedding Pipeline", "LLM Serving"} :
           arch[k].type = "str"
    /\ \A k \in {"API Layer", "Ingestion", "Processing", "Storage", "RAG Stack",
                 "Agentic AI", "MLOps", "CI/CD", "DR/Resilience"} :
           arch[k].type = "list" /\ Len(arch[k].val) >= 1

\* C1 witness: a selection computed for a record with every one of the
\* five read inputs moved away from its default, two of them out of range.
C1_Witness ==
    /\ latency_ms = 2001
    /\ streaming_pct = -1
    /\ freshness_min = 14
    /\ rag_corpus_gb = 50
    /\ model_size = "L"
    /\ arch["Processing"] = PyList(<<"Dataflow (Streaming)">>)

\* C2: the selection equals the decision table: each of the five choices is
\* made by its own threshold comparison (> 150 for latency, >= 50 for the
\* streaming ratio, < 15 for freshness, > 50 for corpus size, = L for the
\* model size), the second element of RAG Stack is "Vector DB: " followed
\* by the Vector DB value, and the other categories are constants.
C2_DecisionTable ==
    /\ arch["API Layer"] \in {PyList(<<"Cloud Run (FastAPI)">>),
                              PyList(<<"Vertex AI Endpoints">>)}
    /\ arch["API Layer"] = PyList(<<"Cloud Run (FastAPI)">>) <=> latency_ms > 150
    /\ latency_ms = 150 => arch["API Layer"] = PyList(<<"Vertex AI Endpoints">>)
    /\ latency_ms = 151 => arch["API Layer"] = PyList(<<"Cloud Run (FastAPI)">>)
    /\ arch["Ingestion"] \in {PyList(<<"Cloud Storage", "Pub/Sub">>),
                              PyList(<<"Cloud Storage", "Batch Dataflow">>)}
    /\ arch["Ingestion"] = PyList(<<"Cloud Storage", "Pub/Sub">>)
           <=> streaming_pct >= 50
    /\ arch["Processing"] \in {PyList(<<"Dataflow (Streaming)">>),
                               PyList(<<"BigQuery + Composer">>)}
    /\ arch["Processing"] = PyList(<<"Dataflow (Streaming)">>)
           <=> freshness_min < 15
    /\ arch["Vector DB"] \in {PyStr("Vertex AI Matching Engine"),
                              PyStr("pgvector on Cloud SQL")}
    /\ arch["Vector DB"] = PyStr("Vertex AI Matching Engine")
           <=> rag_corpus_gb > 50
    /\ rag_corpus_gb = 50 => arch["Vector DB"] = PyStr("pgvector on Cloud SQL")
    /\ rag_corpus_gb = 51 => arch["Vector DB"] = PyStr("Vertex AI Matching Engine")
    /\ arch["LLM Serving"] \in {PyStr("Vertex AI Endpoints"),
                                PyStr("Cloud Run (Light LLM)")}
    /\ arch["LLM Serving"] = PyStr("Vertex AI Endpoints") <=> model_size = "L"
    /\ arch["RAG Stack"].type = "list"
    /\ Len(arch["RAG Stack"].val) = 4
    /\ arch["RAG Stack"].val[1] = "Retriever (FAISS or Matching Engine)"
    /\ arch["RAG Stack"].val[2] = "Vector DB: " \o arch["Vector DB"].val
    /\ arch["RAG Stack"].val[3] = "Context Builder"
    /\ arch["RAG Stack"].val[4] = "RAG Policy"
    /\ arch["Storage"] = PyList(<<"BigQuery", "Cloud SQL", "Firestore">>)
    /\ arch["Embedding Pipeline"] = PyStr("Cloud Run Embedding Workers")
    /\ arch["Agentic AI"] = PyList(<<"Workflows orchestrator",
                                     "Serverless agents", "Pub/Sub triggers">>)
    /\ arch["MLOps"] = PyList(<<"Vertex AI Experiments", "Model Registry",
                                "Cloud Monitoring + Logging">>)
    /\ arch["CI/CD"] = PyList(<<"GitHub Actions -> Cloud Build -> Deploy",
                                "Terraform Infra as Code">>)
    /\ arch["DR/Resilience"] = PyList(<<"Multi-region backups",
                                        "Cold/Warm standby">>)

\* C2 witness: latency exactly 150 with corpus size exactly 51, each on its
\* side of its threshold.
C2_Witness ==
    /\ latency_ms = 150
    /\ rag_corpus_gb = 51
    /\ arch["API Layer"] = PyList(<<"Vertex AI Endpoints">>)
    /\ arch["RAG Stack"].val[2] = "Vector DB: Vertex AI Matching Engine"

\* C3: for every input record and every selection, the report is not
\* empty and is the advisories of the rules whose condition holds, in rule
\* order 1, 2, 3, each rule taken on its own; when none holds it is the one
\* confirmation, which never stands beside an advisory.
C3_ReportIsTheFiredRules ==
    LET cond == <<Holds("Storage", "Cloud SQL") /\ rag_corpus_gb > 500,
                  model_size = "L"
                      /\ arch["LLM Serving"] = PyStr("Cloud Run (Light LLM)"),
                  streaming_pct > 70
                      /\ ~Holds("Processing", "Dataflow (Streaming)")>>
        advisory == <<Advisory1, Advisory2, Advisory3>>
        fired == SelectSeq(<<1, 2, 3>>, LAMBDA n : cond[n])
    IN  /\ Len(agent_feedback) >= 1
        /\ fired # <<>> =>
               agent_feedback = [i \in 1..Len(fired) |-> advisory[fired[i]]]
        /\ fired = <<>> => agent_feedback = <<Confirmation>>
        /\ InReport(Confirmation) => Len(agent_feedback) = 1

\* C3 witness: a selection the recommender never returns for these inputs
\* (model size L served by the light container) on which all three rules
\* hold at once.
C3_Witness ==
    /\ model_size = "L"
    /\ arch["LLM Serving"] = PyStr("Cloud Run (Light LLM)")
    /\ agent_feedback = <<Advisory1, Advisory2, Advisory3>>

\* C4: on the recommender's own selection, the streaming-transform advisory
\* (rule 3) is in the report exactly when the streaming ratio is above 70
\* and the freshness target is at least 15.
C4_Rule3OnOwnSelection ==
    /\ InReport(Advisory3) <=> (streaming_pct > 70 /\ freshness_min >= 15)
    /\ (streaming_pct > 70 /\ freshness_min < 15) =>
           arch["Processing"] = PyList(<<"Dataflow (Streaming)">>)
    /\ (streaming_pct > 70 /\ freshness_min >= 15) =>
           arch["Processing"] = PyList(<<"BigQuery + Composer">>)

\* C4 witness: streaming ratio 71 with freshness exactly 15, rule 3 fired.
C4_Witness ==
    /\ streaming_pct = 71
    /\ freshness_min = 15
    /\ InReport(Advisory3)

\* C5: on the recommender's own selection, rule 2 never fires: model size
\* L is served by the managed endpoint whatever the latency target.
C5_Rule2NeverFires ==
    /\ ~InReport(Advisory2)
    /\ model_size = "L" => arch["LLM Serving"] = PyStr("Vertex AI Endpoints")
    /\ arch["LLM Serving"] = PyStr("Cloud Run (Light LLM)") => model_size # "L"

\* C5 witness: model size L with a latency target above the API threshold.
C5_Witness ==
    /\ model_size = "L"
    /\ latency_ms > 150
    /\ arch["API Layer"] = PyList(<<"Cloud Run (FastAPI)">>)
    /\ arch["LLM Serving"] = PyStr("Vertex AI Endpoints")

\* C6: on the recommender's own selection, the relational store is in
\* Storage, and rule 1 is in the report exactly when corpus size is above
\* 500; corpus size 500 does not fire it.
C6_Rule1OnOwnSelection ==
    /\ Holds("Storage", "Cloud SQL")
    /\ InReport(Advisory1) <=> rag_corpus_gb > 500
    /\ rag_corpus_gb = 500 => ~InReport(Advisory1)

\* C6 witness: corpus size exactly 500, rule 1 silent.
C6_Witness ==
    /\ rag_corpus_gb = 500
    /\ ~InReport(Advisory1)
    /\ Holds("Storage", "Cloud SQL")

\* C7: for inputs outside the declared ranges the selection and the report
\* are those of the same record with each out-of-range value replaced by
\* the nearest end of its range.
C7_OutOfRangeAsClamped ==
    LET c == [Globals EXCEPT
                  !.latency_ms = Clamp(latency_msSlider, latency_ms),
                  !.rag_corpus_gb = Clamp(rag_corpus_gbSlider, rag_corpus_gb),
                  !.freshness_min = Clamp(freshness_minSlider, freshness_min),
                  !.streaming_pct = Clamp(streaming_pctSlider, streaming_pct)]
    IN  /\ arch = architecture_logic(c)
        /\ agent_feedback = agentic_verifier(architecture_logic(c), c)

\* C7 witness: a negative corpus size and a streaming ratio above 100, with
\* latency and freshness out of range as well.
C7_Witness ==
    /\ rag_corpus_gb < 0
    /\ streaming_pct > 100
    /\ latency_ms > 2000
    /\ freshness_min > 1440
    /\ arch["Ingestion"] = PyList(<<"Cloud Storage", "Pub/Sub">>)
    /\ agent_feedback = <<Advisory3>>

\* C8: after any sequence of input changes the selection is the
\* recommender's for the current inputs, the report is the verifier's for
\* the current inputs and that selection, and the export document carries
\* that selection, that report and the current 15 inputs.
C8_ResultsAreOfCurrentInputs ==
    /\ arch = architecture_logic(Globals)
    /\ agent_feedback = agentic_verifier(arch, Globals)
    /\ bom_json.architecture = arch
    /\ bom_json.agent_feedback = agent_feedback
    /\ bom_json.inputs = Globals
    /\ DOMAIN bom_json.inputs =
           {"users", "rps", "latency_ms", "data_gb_day", "rag_corpus_gb",
            "freshness_min", "streaming_pct", "availability", "rpo_min",
            "rto_min", "security", "compliance", "budget", "model_size",
            "embed_refresh_hours"}

\* C8 witness: the third re-run, every widget back at its default.
C8_Witness ==
    /\ now = 3
    /\ Globals = [users |-> 500, rps |-> 120, latency_ms |-> 300,
                  data_gb_day |-> 80, rag_corpus_gb |-> 200,
                  freshness_min |-> 30, streaming_pct |-> 60,
                  availability |-> "99.9%", rpo_min |-> 15, rto_min |-> 30,
                  security |-> "High", compliance |-> "PII",
                  budget |-> "Medium", model_size |-> "M",
                  embed_refresh_hours |-> 24]
    /\ agent_feedback = <<Confirmation>>

\* C9: whenever rule 1's advisory is in the report for the recommender's
\* own selection, that selection's Vector DB is the managed vector index
\* and not the vector extension on the relational store.
C9_Rule1ImpliesMatchingEngine ==
    InReport(Advisory1) =>
        /\ arch["Vector DB"] = PyStr("Vertex AI Matching Engine")
        /\ arch["Vector DB"] # PyStr("pgvector on Cloud SQL")

\* C9 witness: corpus size 501, the advisory first in the report.
C9_Witness ==
    /\ rag_corpus_gb = 501
    /\ agent_feedback[1] = Advisory1
    /\ arch["RAG Stack"].val[2] = "Vector DB: Vertex AI Matching Engine"

\* C10: the selection and the report are those of the record that agrees
\* with the current one on latency, streaming ratio, freshness, corpus size
\* and model size and has the other ten inputs at their defaults; so any
\* two records that agree on the five give the same selection and report.
C10_OnlyFiveInputsMatter ==
    LET d == [Globals EXCEPT
                  !.users = usersSlider.value,
                  !.rps = rpsSlider.value,
                  !.data_gb_day = data_gb_daySlider.value,
                  !.availability = availabilitySlider.value,
                  !.rpo_min = rpo_minSlider.value,
                  !.rto_min = rto_minSlider.value,
                  !.security = securitySlider.value,
                  !.compliance = complianceSlider.value,
                  !.budget = budgetSlider.value,
                  !.embed_refresh_hours = embed_refresh_hoursSlider.value]
    IN  /\ arch = architecture_logic(d)
        /\ agent_feedback = agentic_verifier(architecture_logic(d), d)

\* C10 witness: three of the ten other inputs away from their defaults.
C10_Witness ==
    /\ rpo_min = 0
    /\ security = "Low"
    /\ users = 20000
    /\ arch["DR/Resilience"].type = "list"

====
